---- MODULE Spec2Model ----
(***************************************************************************)
(* State-machine model of backend/main.py: a FastAPI relay between a       *)
(* generative-model API and the Google Drive API.                          *)
(*                                                                         *)
(* One request slot is one handler invocation.  Every external call is     *)
(* split in two steps: the handler issues it (the call joins inflight[r]   *)
(* and is appended to calls[r]) and the vendor later answers, either with  *)
(* a result or by raising.  File names are sequences of tokens so that     *)
(* startswith / replace / split are computed, not assumed.  A prompt is    *)
(* represented by the transcript it embeds.                                *)
(***************************************************************************)
EXTENDS Naturals, Sequences, FiniteSets

VARIABLES
    env,                        \* the process environment read at import time
    drive_service,              \* TRUE iff the module-level client handle is set
    FOLDER_ID_M4A_DESTINATION,  \* "" stands for None / empty
    FOLDER_ID_TXT_DESTINATION,
    drive_files,                \* Drive: file id -> metadata of pre-existing files
    drive_created,              \* Drive: files created by files().create, in order
    pc,                         \* per request: the handler's position
    request,                    \* per request: endpoint and body
    local,                      \* per request: the handler's local variables
    calls,                      \* per request: external calls issued, in order
    returned,                   \* per request: number of calls that returned a result
    inflight,                   \* per request: calls issued and not yet answered
    response                    \* per request: the HTTP response

vars == <<env, drive_service, FOLDER_ID_M4A_DESTINATION, FOLDER_ID_TXT_DESTINATION,
          drive_files, drive_created, pc, request, local, calls, returned,
          inflight, response>>

config == <<env, drive_service, FOLDER_ID_M4A_DESTINATION, FOLDER_ID_TXT_DESTINATION>>

----------------------------------------------------------------------------
(* Bounds *)

NumRequests == 2

Requests == 1..NumRequests

----------------------------------------------------------------------------
(* Python string operations on token sequences *)

\* str.startswith
StartsWith(s, p) == Len(s) >= Len(p) /\ SubSeq(s, 1, Len(p)) = p

\* positions at which p occurs in s
Occurrences(s, p) ==
    {i \in 1..(Len(s) + 1) : i + Len(p) - 1 <= Len(s) /\ SubSeq(s, i, i + Len(p) - 1) = p}

\* str.replace(p, "", 1): the first occurrence of p removed
ReplaceFirst(s, p) ==
    IF Occurrences(s, p) = {} THEN s
    ELSE LET i == CHOOSE k \in Occurrences(s, p) : \A j \in Occurrences(s, p) : k <= j
         IN  SubSeq(s, 1, i - 1) \o SubSeq(s, i + Len(p), Len(s))

\* str.split('.')[0]: everything before the first "."
SplitDotFirst(s) ==
    IF \E i \in 1..Len(s) : s[i] = "."
    THEN LET i == CHOOSE k \in 1..Len(s) :
                      s[k] = "." /\ \A j \in 1..(k - 1) : s[j] # "."
         IN  SubSeq(s, 1, i - 1)
    ELSE s

PREFIX == <<"Grabacion", " ", "de", " ", "llamada", " ">>

\* lines 158-160
StripPrefix(original_name) ==
    IF StartsWith(original_name, PREFIX)
    THEN ReplaceFirst(original_name, PREFIX)
    ELSE original_name

\* line 216
TxtFilename(new_name) == SplitDotFirst(new_name) \o <<".", "txt">>

FOLDER_MIME == "application/vnd.google-apps.folder"

\* line 152
IsFolder(mime_type) == mime_type = FOLDER_MIME

\* faulty variant: only the video type is remapped
RemapMime_VideoOnly(mime_type) ==
    IF mime_type = "video/3gpp" THEN "audio/m4a" ELSE mime_type

\* lines 175-177
RemapMime(mime_type) ==
    IF mime_type = "video/3gpp" \/ mime_type = "audio/3gpp"
    THEN "audio/m4a"
    ELSE mime_type

----------------------------------------------------------------------------
(* Module-level start-up, lines 23-46 *)

\* os.getenv yields None or a string; "" and FALSE stand for the falsy values.
\* creds_ok: json.loads, from_service_account_info and build all succeed.
Environments ==
    {e \in [json : BOOLEAN, creds_ok : BOOLEAN, m4a : {"", "ARCH"},
            txt : {"", "REP"}, key : BOOLEAN] : e.creds_ok => e.json}

\* lines 32-46: the handle is built only when all four settings are truthy
\* and loading the credentials raises nothing
BuildDriveService(e) ==
    IF ~(e.json /\ e.m4a # "" /\ e.txt # "" /\ e.key)
    THEN FALSE
    ELSE e.creds_ok

----------------------------------------------------------------------------
(* The Drive account the service works on *)

\* what Drive may report for the recording: a media type and a name
AudioVariants ==
    {[mimeType |-> "video/3gpp", name |-> PREFIX \o <<"x", ".", "m4a">>],
     [mimeType |-> "audio/3gpp", name |-> PREFIX \o PREFIX \o <<"z", ".", "v2", ".", "mp3">>],
     [mimeType |-> "audio/mpeg", name |-> <<"y", " ">> \o PREFIX \o <<".", "3gp">>]}

\* a recording a1 in folder P (downloaded in two chunks), a folder d1, and a
\* recording n1 for which Drive reports no parents
InitialDrive(v) ==
    [a1 |-> [mimeType |-> v.mimeType, name |-> v.name, parents |-> <<"P">>, chunks |-> 2],
     d1 |-> [mimeType |-> FOLDER_MIME, name |-> <<"llamadas">>,
             parents |-> <<"P">>, chunks |-> 0],
     n1 |-> [mimeType |-> "audio/m4a", name |-> <<"w", ".", "m4a">>,
             parents |-> <<>>, chunks |-> 1]]

FileIds == {"a1", "d1", "n1"}

\* the instruction lists a client may send (lines 77 and 81)
InstructionLists == {<<>>, <<"x", "y">>}

\* transcripts: what the model may answer to a transcription call and what a
\* client may send to /summarize-general
Texts == {"", "hola"}

\* what the model may answer to a summarization call; the handlers pass a
\* summary on without looking at it
Summaries == {"resumen"}

----------------------------------------------------------------------------
(* Requests *)

\* rerun is a history field: whether an earlier request on the same identifier
\* had already completed successfully when this one arrived
NoRequest == [endpoint |-> "none", drive_file_id |-> "", has_file |-> FALSE,
              filename |-> "", transcription |-> "", instructions |-> <<>>,
              rerun |-> FALSE]

NoResponse == [status |-> 0, detail |-> "", body |-> [kind |-> "none"]]

\* pending is the outcome of /transcribe's try block while its finally clause runs
NoLocal == [mime_type |-> "", original_name |-> <<>>, original_parent |-> "",
            new_name |-> <<>>, chunks_read |-> 0, transcription |-> "",
            general_summary |-> "", business_summary |-> "", pending |-> NoResponse]

Init ==
    /\ env \in Environments
    /\ drive_service = BuildDriveService(env)
    /\ FOLDER_ID_M4A_DESTINATION = env.m4a
    /\ FOLDER_ID_TXT_DESTINATION = env.txt
    /\ drive_files \in {InitialDrive(v) : v \in AudioVariants}
    /\ drive_created = <<>>
    /\ pc = [r \in Requests |-> "idle"]
    /\ request = [r \in Requests |-> NoRequest]
    /\ local = [r \in Requests |-> NoLocal]
    /\ calls = [r \in Requests |-> <<>>]
    /\ returned = [r \in Requests |-> 0]
    /\ inflight = [r \in Requests |-> {}]
    /\ response = [r \in Requests |-> NoResponse]

----------------------------------------------------------------------------
(* POST /transcribe-from-drive, lines 138-244 *)

\* faulty variant: the business summary is asked for before the general one
HandlerSteps_SummariesSwapped ==
    <<"metadata", "download", "transcribe", "business", "general", "upload", "move">>

\* faulty variant: the original is moved before the report is uploaded
HandlerSteps_MoveFirst ==
    <<"metadata", "download", "transcribe", "general", "business", "move", "upload">>

\* the external calls of the handler in program order: files().get (148),
\* next_chunk (169), generate_content_async (184, 195, 211), files().create
\* (219-222), files().update (225-230)
HandlerSteps == <<"metadata", "download", "transcribe", "general", "business", "upload", "move">>

StepIndex(call) == CHOOSE i \in 1..Len(HandlerSteps) : HandlerSteps[i] = call

\* the call the handler issues once `call` has returned; "end" is line 233
NextStep(call) ==
    IF StepIndex(call) = Len(HandlerSteps) THEN "end" ELSE HandlerSteps[StepIndex(call) + 1]

ModelCalls == {"transcribe", "general", "business"}

\* faulty variant: the check of the client handle is missing
ConfigError_FoldersOnly(service, m4a, txt) ==
    IF ~(m4a # "" /\ txt # "") THEN "IDs de carpetas de destino no configurados"
    ELSE ""

\* lines 140-143: "" when the integration is configured
ConfigError(service, m4a, txt) ==
    IF ~service THEN "Servicio de Google Drive no configurado"
    ELSE IF ~(m4a # "" /\ txt # "") THEN "IDs de carpetas de destino no configurados"
    ELSE ""

HTTPException(status, detail) == [type |-> "HTTPException", status |-> status, detail |-> detail]

Exception(text) == [type |-> "Exception", status |-> 0, detail |-> text]

\* faulty variant: every exception is wrapped as a 500
ErrorResponse_Rewrapped(e) == [status |-> 500, detail |-> e.detail]

\* lines 240-244: an HTTPException is re-raised as it is, anything else
\* becomes a 500 carrying str(e)
ErrorResponse(e) ==
    IF e.type = "HTTPException"
    THEN [status |-> e.status, detail |-> e.detail]
    ELSE [status |-> 500, detail |-> e.detail]

\* what a failing vendor call raises; for a model call the second text is the
\* ValueError of response.text on an answer without text (185, 196, 212)
VendorErrors(call) ==
    IF call \in ModelCalls THEN {"model error", "response has no text"}
    ELSE {"storage error"}

\* lines 84-111 (the timestamp is left out)
generate_document_content(file_name, transcription, general_summary, business_summary) ==
    [file_name |-> file_name, transcription |-> transcription,
     general_summary |-> general_summary, business_summary |-> business_summary]

\* faulty variant: a file of the same name in the same folder is overwritten
CreateFile_Overwriting(created, file) ==
    IF \E i \in 1..Len(created) : created[i].name = file.name /\ created[i].parents = file.parents
    THEN LET i == CHOOSE k \in 1..Len(created) :
                      created[k].name = file.name /\ created[k].parents = file.parents
         IN  [created EXCEPT ![i] = file]
    ELSE Append(created, file)

\* Drive files().create: a new file is added, whatever files exist already.
\* source and by are history fields: the identifier and the request it was made for.
CreateFile(created, file) == Append(created, file)

\* lines 219-222
ReportFile(r, fid, loc, txt_folder) ==
    [name |-> TxtFilename(loc.new_name), parents |-> <<txt_folder>>,
     mimeType |-> "text/plain",
     content |-> generate_document_content(loc.new_name, loc.transcription,
                                           loc.general_summary, loc.business_summary),
     source |-> fid, by |-> r]

\* Drive files().update with addParents, removeParents and a new name, lines
\* 225-230, when Drive accepts the call: the file ends in folder `add`, also
\* when `remove` is not a parent of the file or is `add` itself (a request on a
\* file that is in the archive folder already).  That Drive refuses the call
\* is DriveCallFails.
UpdateFile(file, add, remove, new_name) ==
    [file EXCEPT !.parents = SelectSeq(@, LAMBDA p : p # remove /\ p # add) \o <<add>>,
                 !.name = new_name]

\* lines 233-238
SuccessBody(loc) ==
    [kind |-> "drive", fileName |-> loc.new_name, transcription |-> loc.transcription,
     generalSummary |-> loc.general_summary, businessSummary |-> loc.business_summary]

\* ". ".join(instructions), as a sequence of tokens
JoinDot(instructions) ==
    [k \in 1..(2 * Len(instructions) - 1) |->
        IF k % 2 = 1 THEN instructions[(k + 1) \div 2] ELSE ". "]

\* lines 199-202 and 267-270: the directive sentence, <<>> for the empty string
PermanentInstructionsText(instructions) ==
    IF instructions # <<>>
    THEN <<"Para este resumen, aplica estas reglas e instrucciones permanentes en todo momento: ">>
             \o JoinDot(instructions)
    ELSE <<>>

\* the argument that matters of each call
ArgFor(call, fid, loc, m4a, txt) ==
    CASE call = "metadata" -> fid
      [] call = "download" -> fid
      [] call = "transcribe" -> loc.mime_type
      [] call = "general" -> loc.transcription
      [] call = "business" -> loc.transcription
      [] call = "upload" -> txt
      [] call = "move" -> m4a

\* the call as it is issued; the business prompt of lines 204-210 carries the
\* directive sentence besides the transcript
CallFor(call, req, loc, m4a, txt) ==
    IF call = "business"
    THEN [call |-> call, arg |-> ArgFor(call, req.drive_file_id, loc, m4a, txt),
          directive |-> PermanentInstructionsText(req.instructions)]
    ELSE [call |-> call, arg |-> ArgFor(call, req.drive_file_id, loc, m4a, txt)]

\* the handler raises e: the except clause answers and the locals are gone
Raise(r, e) ==
    /\ local' = [local EXCEPT ![r] = NoLocal]
    /\ response' = [response EXCEPT ![r] =
           [status |-> ErrorResponse(e).status, detail |-> ErrorResponse(e).detail,
            body |-> [kind |-> "none"]]]
    /\ pc' = [pc EXCEPT ![r] = "done"]

\* `call` has returned its result and the handler runs on with locals loc,
\* up to its next external call or to its return statement
Continue(r, call, loc) ==
    LET next == NextStep(call) IN
    /\ returned' = [returned EXCEPT ![r] = @ + 1]
    /\ local' = [local EXCEPT ![r] = IF next = "end" THEN NoLocal ELSE loc]
    /\ IF next = "end"
       THEN /\ inflight' = [inflight EXCEPT ![r] = @ \ {call}]
            /\ calls' = calls
            /\ response' = [response EXCEPT ![r] =
                   [status |-> 200, detail |-> "", body |-> SuccessBody(loc)]]
            /\ pc' = [pc EXCEPT ![r] = "done"]
       ELSE /\ inflight' = [inflight EXCEPT ![r] = (@ \ {call}) \cup {next}]
            /\ calls' = [calls EXCEPT ![r] = Append(@,
                   CallFor(next, request[r], loc,
                           FOLDER_ID_M4A_DESTINATION, FOLDER_ID_TXT_DESTINATION))]
            /\ response' = response
            /\ pc' = [pc EXCEPT ![r] = next]

Awaiting(r, call) == request[r].endpoint = "drive" /\ pc[r] = call /\ call \in inflight[r]

\* an earlier request on fid has completed successfully
Succeeded(fid) ==
    \E q \in Requests : /\ pc[q] = "done" /\ request[q].endpoint = "drive"
                        /\ request[q].drive_file_id = fid /\ response[q].status = 200

\* lines 79-81 and 139-148
DriveRequest(r) ==
    /\ pc[r] = "idle"
    /\ \E fid \in FileIds, instructions \in InstructionLists :
         /\ request' = [request EXCEPT ![r] =
                [NoRequest EXCEPT !.endpoint = "drive", !.drive_file_id = fid,
                                  !.instructions = instructions,
                                  !.rerun = Succeeded(fid)]]
         /\ IF ConfigError(drive_service, FOLDER_ID_M4A_DESTINATION, FOLDER_ID_TXT_DESTINATION) # ""
            THEN /\ Raise(r, HTTPException(500,
                        ConfigError(drive_service, FOLDER_ID_M4A_DESTINATION, FOLDER_ID_TXT_DESTINATION)))
                 /\ UNCHANGED <<calls, inflight>>
            ELSE /\ calls' = [calls EXCEPT ![r] = Append(@,
                        [call |-> HandlerSteps[1], arg |-> fid])]
                 /\ inflight' = [inflight EXCEPT ![r] = @ \cup {HandlerSteps[1]}]
                 /\ pc' = [pc EXCEPT ![r] = HandlerSteps[1]]
                 /\ UNCHANGED <<response, local>>
    /\ UNCHANGED <<config, drive_files, drive_created, returned>>

\* lines 148-164: the metadata arrives
MetadataReturns(r) ==
    /\ Awaiting(r, "metadata")
    /\ LET file_metadata == drive_files[request[r].drive_file_id]
           mime_type == file_metadata.mimeType
           original_name == file_metadata.name
       IN  IF IsFolder(mime_type)
           THEN /\ Raise(r, HTTPException(400, "El link es de una CARPETA"))
                /\ inflight' = [inflight EXCEPT ![r] = @ \ {"metadata"}]
                /\ returned' = [returned EXCEPT ![r] = @ + 1]
                /\ UNCHANGED calls
           ELSE IF file_metadata.parents = <<>>
           THEN /\ Raise(r, Exception("TypeError: parents"))
                /\ inflight' = [inflight EXCEPT ![r] = @ \ {"metadata"}]
                /\ returned' = [returned EXCEPT ![r] = @ + 1]
                /\ UNCHANGED calls
           ELSE Continue(r, "metadata",
                    [local[r] EXCEPT !.mime_type = mime_type,
                                     !.original_name = original_name,
                                     !.original_parent = file_metadata.parents[1],
                                     !.new_name = StripPrefix(original_name)])
    /\ UNCHANGED <<config, drive_files, drive_created, request>>

\* lines 168-177: one next_chunk answers; after the last one the media type is remapped
DownloadChunkReturns(r) ==
    /\ Awaiting(r, "download")
    /\ IF local[r].chunks_read + 1 < drive_files[request[r].drive_file_id].chunks
       THEN /\ local' = [local EXCEPT ![r].chunks_read = @ + 1]
            /\ returned' = [returned EXCEPT ![r] = @ + 1]
            /\ calls' = [calls EXCEPT ![r] = Append(@,
                   [call |-> "download", arg |-> request[r].drive_file_id])]
            /\ UNCHANGED <<inflight, pc, response>>
       ELSE Continue(r, "download",
                [local[r] EXCEPT !.chunks_read = @ + 1,
                                 !.mime_type = RemapMime(@)])
    /\ UNCHANGED <<config, drive_files, drive_created, request>>

\* lines 184-185
TranscribeReturns(r) ==
    /\ Awaiting(r, "transcribe")
    /\ \E text \in Texts : Continue(r, "transcribe", [local[r] EXCEPT !.transcription = text])
    /\ UNCHANGED <<config, drive_files, drive_created, request>>

\* lines 195-211: the general summary arrives and the business prompt is built
\* from request.instructions and the transcript
GeneralReturns(r) ==
    /\ Awaiting(r, "general")
    /\ \E text \in Summaries : Continue(r, "general", [local[r] EXCEPT !.general_summary = text])
    /\ UNCHANGED <<config, drive_files, drive_created, request>>

\* lines 211-212
BusinessReturns(r) ==
    /\ Awaiting(r, "business")
    /\ \E text \in Summaries : Continue(r, "business", [local[r] EXCEPT !.business_summary = text])
    /\ UNCHANGED <<config, drive_files, drive_created, request>>

\* lines 214-222: Drive has stored the report
UploadReturns(r) ==
    /\ Awaiting(r, "upload")
    /\ drive_created' = CreateFile(drive_created,
           ReportFile(r, request[r].drive_file_id, local[r], FOLDER_ID_TXT_DESTINATION))
    /\ Continue(r, "upload", local[r])
    /\ UNCHANGED <<config, drive_files, request>>

\* lines 225-238: Drive has moved and renamed the original
MoveReturns(r) ==
    /\ Awaiting(r, "move")
    /\ drive_files' = [drive_files EXCEPT ![request[r].drive_file_id] =
           UpdateFile(@, FOLDER_ID_M4A_DESTINATION, local[r].original_parent, local[r].new_name)]
    /\ Continue(r, "move", local[r])
    /\ UNCHANGED <<config, drive_created, request>>

\* faulty variant: the except clause deletes the report the request had uploaded
DriveCallFails_Compensating(r) ==
    /\ request[r].endpoint = "drive"
    /\ pc[r] \in inflight[r]
    /\ \E text \in VendorErrors(pc[r]) : Raise(r, Exception(text))
    /\ inflight' = [inflight EXCEPT ![r] = @ \ {pc[r]}]
    /\ drive_created' = SelectSeq(drive_created, LAMBDA f : f.by # r)
    /\ UNCHANGED <<config, drive_files, request, calls, returned>>

\* lines 240-244: the awaited call raises
DriveCallFails(r) ==
    /\ request[r].endpoint = "drive"
    /\ pc[r] \in inflight[r]
    /\ \E text \in VendorErrors(pc[r]) : Raise(r, Exception(text))
    /\ inflight' = [inflight EXCEPT ![r] = @ \ {pc[r]}]
    /\ UNCHANGED <<config, drive_files, drive_created, request, calls, returned>>

----------------------------------------------------------------------------
(* POST /transcribe, lines 119-136 *)

\* line 120: the parameter is declared File(...), a required form field; the
\* framework binds it before the handler runs and answers 422 itself when the
\* field is missing.  0 when the body binds.
RequestValidation(has_file) == IF has_file THEN 0 ELSE 422

\* line 121: `not file` on the bound UploadFile object, which is always truthy
FileMissing(has_file) == FALSE

\* lines 131-133, 259-261, 282-284: whatever was raised inside the try becomes
\* a 500 carrying str(e)
LocalError(text) == [status |-> 500, detail |-> text, body |-> [kind |-> "none"]]

\* an exception that leaves the handler is answered by the framework
Unhandled == [status |-> 500, detail |-> "Internal Server Error", body |-> [kind |-> "none"]]

\* lines 119-126: the request is bound and the handler runs up to await file.read()
TranscribeAudio(r) ==
    /\ pc[r] = "idle"
    /\ \E has_file \in BOOLEAN :
         /\ request' = [request EXCEPT ![r] =
                [NoRequest EXCEPT !.endpoint = "transcribe", !.has_file = has_file,
                                  !.filename = IF has_file THEN "llamada.m4a" ELSE ""]]
         /\ IF RequestValidation(has_file) # 0
            THEN /\ response' = [response EXCEPT ![r] =
                        [status |-> RequestValidation(has_file), detail |-> "field required",
                         body |-> [kind |-> "none"]]]
                 /\ pc' = [pc EXCEPT ![r] = "done"]
            ELSE IF FileMissing(has_file)
            THEN /\ response' = [response EXCEPT ![r] =
                        [status |-> 400, detail |-> "No se subio ningun archivo",
                         body |-> [kind |-> "none"]]]
                 /\ pc' = [pc EXCEPT ![r] = "done"]
            ELSE /\ pc' = [pc EXCEPT ![r] = "read"]
                 /\ response' = response
    /\ UNCHANGED <<config, drive_files, drive_created, local, calls, inflight, returned>>

\* lines 124-129: file.read() has given the bytes and the model is called
FileReadReturns(r) ==
    /\ request[r].endpoint = "transcribe"
    /\ pc[r] = "read"
    /\ calls' = [calls EXCEPT ![r] = Append(@, [call |-> "transcribe", arg |-> "audio/mpeg"])]
    /\ inflight' = [inflight EXCEPT ![r] = @ \cup {"transcribe"}]
    /\ pc' = [pc EXCEPT ![r] = "transcribe"]
    /\ UNCHANGED <<config, drive_files, drive_created, request, local, returned, response>>

\* lines 126, 131-135: file.read() raises; the except clause makes the 500 and
\* the finally clause goes on to await file.close()
FileReadFails(r) ==
    /\ request[r].endpoint = "transcribe"
    /\ pc[r] = "read"
    /\ local' = [local EXCEPT ![r].pending = LocalError("read error")]
    /\ pc' = [pc EXCEPT ![r] = "close"]
    /\ UNCHANGED <<config, drive_files, drive_created, request, calls, inflight, returned, response>>

\* lines 129-130, 134-135: the model has answered; the result waits for the
\* finally clause
TranscribeAudioReturns(r) ==
    /\ request[r].endpoint = "transcribe"
    /\ pc[r] = "transcribe"
    /\ \E text \in Texts :
         local' = [local EXCEPT ![r].pending =
             [status |-> 200, detail |-> "",
              body |-> [kind |-> "transcribe", transcription |-> text,
                        fileName |-> request[r].filename]]]
    /\ pc' = [pc EXCEPT ![r] = "close"]
    /\ inflight' = [inflight EXCEPT ![r] = @ \ {"transcribe"}]
    /\ returned' = [returned EXCEPT ![r] = @ + 1]
    /\ UNCHANGED <<config, drive_files, drive_created, request, calls, response>>

\* lines 131-135: the model call, or response.text, raises
TranscribeAudioFails(r) ==
    /\ request[r].endpoint = "transcribe"
    /\ pc[r] = "transcribe"
    /\ \E text \in VendorErrors("transcribe") :
         local' = [local EXCEPT ![r].pending = LocalError(text)]
    /\ pc' = [pc EXCEPT ![r] = "close"]
    /\ inflight' = [inflight EXCEPT ![r] = @ \ {"transcribe"}]
    /\ UNCHANGED <<config, drive_files, drive_created, request, calls, returned, response>>

\* lines 134-136: file.close() is done and the handler ends as the try block left it
FileCloseReturns(r) ==
    /\ request[r].endpoint = "transcribe"
    /\ pc[r] = "close"
    /\ response' = [response EXCEPT ![r] = local[r].pending]
    /\ local' = [local EXCEPT ![r] = NoLocal]
    /\ pc' = [pc EXCEPT ![r] = "done"]
    /\ UNCHANGED <<config, drive_files, drive_created, request, calls, inflight, returned>>

\* lines 134-136: file.close() raises inside finally; its exception replaces
\* the result or the HTTPException and leaves the handler
FileCloseFails(r) ==
    /\ request[r].endpoint = "transcribe"
    /\ pc[r] = "close"
    /\ response' = [response EXCEPT ![r] = Unhandled]
    /\ local' = [local EXCEPT ![r] = NoLocal]
    /\ pc' = [pc EXCEPT ![r] = "done"]
    /\ UNCHANGED <<config, drive_files, drive_created, request, calls, inflight, returned>>

----------------------------------------------------------------------------
(* POST /summarize-general, lines 246-261 *)

\* lines 247-257: what the handler answers before calling the model; 0 when
\* it goes on to the call.  The body has no check of request.transcription.
SummarizeGeneralCheck(transcription) == 0

\* lines 246-257
SummarizeGeneral(r) ==
    /\ pc[r] = "idle"
    /\ \E transcription \in Texts :
         /\ request' = [request EXCEPT ![r] =
                [NoRequest EXCEPT !.endpoint = "summarize-general",
                                  !.transcription = transcription]]
         /\ IF SummarizeGeneralCheck(transcription) # 0
            THEN /\ Raise(r, HTTPException(SummarizeGeneralCheck(transcription),
                                           "La transcripcion esta vacia"))
                 /\ UNCHANGED <<calls, inflight>>
            ELSE /\ calls' = [calls EXCEPT ![r] = Append(@,
                        [call |-> "general", arg |-> transcription])]
                 /\ inflight' = [inflight EXCEPT ![r] = @ \cup {"general"}]
                 /\ pc' = [pc EXCEPT ![r] = "general"]
                 /\ response' = response
    /\ UNCHANGED <<config, drive_files, drive_created, local, returned>>

\* lines 257-258
SummarizeGeneralReturns(r) ==
    /\ request[r].endpoint = "summarize-general"
    /\ pc[r] = "general"
    /\ \E text \in Summaries :
         response' = [response EXCEPT ![r] =
             [status |-> 200, detail |-> "", body |-> [kind |-> "summary", summary |-> text]]]
    /\ pc' = [pc EXCEPT ![r] = "done"]
    /\ inflight' = [inflight EXCEPT ![r] = @ \ {"general"}]
    /\ returned' = [returned EXCEPT ![r] = @ + 1]
    /\ UNCHANGED <<config, drive_files, drive_created, request, local, calls>>

\* lines 259-261
SummarizeGeneralFails(r) ==
    /\ request[r].endpoint = "summarize-general"
    /\ pc[r] = "general"
    /\ \E text \in VendorErrors("general") :
         response' = [response EXCEPT ![r] = LocalError(text)]
    /\ pc' = [pc EXCEPT ![r] = "done"]
    /\ inflight' = [inflight EXCEPT ![r] = @ \ {"general"}]
    /\ UNCHANGED <<config, drive_files, drive_created, request, local, calls, returned>>

----------------------------------------------------------------------------
(* POST /summarize-business, lines 263-284 *)

\* lines 263-280: no check of the transcript; the prompt carries the directive
\* sentence and the transcript
SummarizeBusiness(r) ==
    /\ pc[r] = "idle"
    /\ \E transcription \in Texts, instructions \in InstructionLists :
         /\ request' = [request EXCEPT ![r] =
                [NoRequest EXCEPT !.endpoint = "summarize-business",
                                  !.transcription = transcription,
                                  !.instructions = instructions]]
         /\ calls' = [calls EXCEPT ![r] = Append(@,
                [call |-> "business", arg |-> transcription,
                 directive |-> PermanentInstructionsText(instructions)])]
    /\ inflight' = [inflight EXCEPT ![r] = @ \cup {"business"}]
    /\ pc' = [pc EXCEPT ![r] = "business"]
    /\ UNCHANGED <<config, drive_files, drive_created, local, returned, response>>

\* lines 280-281
SummarizeBusinessReturns(r) ==
    /\ request[r].endpoint = "summarize-business"
    /\ pc[r] = "business"
    /\ \E text \in Summaries :
         response' = [response EXCEPT ![r] =
             [status |-> 200, detail |-> "", body |-> [kind |-> "summary", summary |-> text]]]
    /\ pc' = [pc EXCEPT ![r] = "done"]
    /\ inflight' = [inflight EXCEPT ![r] = @ \ {"business"}]
    /\ returned' = [returned EXCEPT ![r] = @ + 1]
    /\ UNCHANGED <<config, drive_files, drive_created, request, local, calls>>

\* lines 282-284
SummarizeBusinessFails(r) ==
    /\ request[r].endpoint = "summarize-business"
    /\ pc[r] = "business"
    /\ \E text \in VendorErrors("business") :
         response' = [response EXCEPT ![r] = LocalError(text)]
    /\ pc' = [pc EXCEPT ![r] = "done"]
    /\ inflight' = [inflight EXCEPT ![r] = @ \ {"business"}]
    /\ UNCHANGED <<config, drive_files, drive_created, request, local, calls, returned>>

----------------------------------------------------------------------------

(* The archive handler shares no variable with the three local handlers, which *)
(* read and write nothing but their own request; the two groups are checked   *)
(* under separate specifications.                                             *)

Next ==
    \E r \in Requests :
        \/ DriveRequest(r)
        \/ MetadataReturns(r)
        \/ DownloadChunkReturns(r)
        \/ TranscribeReturns(r)
        \/ GeneralReturns(r)
        \/ BusinessReturns(r)
        \/ UploadReturns(r)
        \/ MoveReturns(r)
        \/ DriveCallFails(r)

Spec == Init /\ [][Next]_vars

NextLocal ==
    \E r \in Requests :
        \/ TranscribeAudio(r)
        \/ FileReadReturns(r)
        \/ FileReadFails(r)
        \/ TranscribeAudioReturns(r)
        \/ TranscribeAudioFails(r)
        \/ FileCloseReturns(r)
        \/ FileCloseFails(r)
        \/ SummarizeGeneral(r)
        \/ SummarizeGeneralReturns(r)
        \/ SummarizeGeneralFails(r)
        \/ SummarizeBusiness(r)
        \/ SummarizeBusinessReturns(r)
        \/ SummarizeBusinessFails(r)

SpecLocal == Init /\ [][NextLocal]_vars

----------------------------------------------------------------------------
(* Properties *)

DriveReq(r) == request[r].endpoint = "drive"

Done(r) == pc[r] = "done"

Range(seq) == {seq[i] : i \in 1..Len(seq)}

\* the files created in Drive for request r
ReportsBy(r) == {i \in 1..Len(drive_created) : drive_created[i].by = r}

\* the files in the reports folder made from recording f
ReportsFor(f) ==
    {i \in 1..Len(drive_created) :
        /\ drive_created[i].source = f
        /\ drive_created[i].parents = <<FOLDER_ID_TXT_DESTINATION>>}

\* the order the specification gives for the external calls of one request
ClaimedOrder == <<"metadata", "download", "transcribe", "general", "business", "upload", "move">>

Stage(call) == CHOOSE i \in 1..Len(ClaimedOrder) : ClaimedOrder[i] = call

\* C1: within one /transcribe-from-drive request the external calls are issued
\* in the order metadata, download (one call per chunk), transcription, general
\* summary, business summary, report upload, move; a call is issued only once
\* every earlier call has returned a result, and at most one call of the
\* request is in flight.
C1_SequentialCalls ==
    \A r \in Requests : DriveReq(r) =>
        /\ Cardinality(inflight[r]) <= 1
        /\ Len(calls[r]) <= returned[r] + 1
        /\ inflight[r] # {} =>
              /\ Len(calls[r]) = returned[r] + 1
              /\ inflight[r] = {calls[r][Len(calls[r])].call}
        /\ Len(calls[r]) >= 1 => calls[r][1].call = ClaimedOrder[1]
        /\ \A i \in 2..Len(calls[r]) :
              \/ Stage(calls[r][i].call) = Stage(calls[r][i - 1].call) + 1
              \/ calls[r][i].call = "download" /\ calls[r][i - 1].call = "download"

\* a request has run through all seven steps, the download in two chunks,
\* while another request was in the middle of its own calls
C1_Witness ==
    \E r, q \in Requests :
        /\ DriveReq(r) /\ Done(r) /\ response[r].status = 200 /\ Len(calls[r]) = 8
        /\ q # r /\ DriveReq(q) /\ inflight[q] # {}

\* a step that leaves Drive as it is
DriveUntouched == drive_files' = drive_files /\ drive_created' = drive_created

\* the step in which request r ends with an error response
Fails(r) == ~Done(r) /\ pc'[r] = "done" /\ request'[r].endpoint = "drive"
            /\ response'[r].status # 200

\* the parents Drive reports for a file nothing has moved
OriginalParents(f) == IF f = "n1" THEN <<>> ELSE <<"P">>

C2_FailedState ==
    \A r \in Requests : DriveReq(r) /\ Done(r) /\ response[r].status # 200 =>
        /\ inflight[r] = {}
        /\ response[r].body = [kind |-> "none"]
        /\ response[r].detail # ""
        \* a call that raised: the detail is that vendor's error text
        /\ Len(calls[r]) = returned[r] + 1 =>
              response[r].detail \in
                  (IF calls[r][Len(calls[r])].call \in {"transcribe", "general", "business"}
                   THEN {"model error", "response has no text"}
                   ELSE {"storage error"})
        /\ IF returned[r] >= 1 /\ drive_files[request[r].drive_file_id].mimeType = FOLDER_MIME
           THEN response[r].status = 400
           ELSE response[r].status = 500
        \* the report uploaded before a failing move is still there
        /\ (\E i \in 1..Len(calls[r]) : calls[r][i].call = "move") =>
              \E i \in ReportsBy(r) : drive_created[i].parents = <<FOLDER_ID_TXT_DESTINATION>>
        \* and the original has not left its parent unless a request moved it
        /\ (\A q \in Requests : ~(DriveReq(q) /\ Done(q) /\ response[q].status = 200
                                   /\ request[q].drive_file_id = request[r].drive_file_id)) =>
              drive_files[request[r].drive_file_id].parents
                  = OriginalParents(request[r].drive_file_id)

C2_FailingStep ==
    \A r \in Requests :
        /\ Fails(r) => DriveUntouched /\ calls'[r] = calls[r] /\ inflight'[r] = {}
        /\ Done(r) => pc'[r] = "done" /\ calls'[r] = calls[r] /\ response'[r] = response[r]

\* C2: a failure at any step of /transcribe-from-drive ends the request with an
\* error response (400 for the handler's own folder error, otherwise 500 with
\* the text of the error), no later call is issued, and the step that fails
\* changes nothing in Drive: what earlier steps created stays, in particular
\* the uploaded report when the move fails, and the original keeps its parent.
C2_FailureAborts == []C2_FailedState /\ [][C2_FailingStep]_vars

\* the move failed after the report had been uploaded: the report is in the
\* reports folder and the recording is still in P
C2_Witness ==
    \E r \in Requests :
        /\ DriveReq(r) /\ Done(r) /\ response[r].status = 500
        /\ Len(calls[r]) = 8 /\ calls[r][8].call = "move"
        /\ ReportsBy(r) # {}
        /\ drive_files[request[r].drive_file_id].parents = <<"P">>

\* C3: when the metadata reports the folder media type the handler answers 400
\* with the folder message (not rewrapped as 500), having issued no call but
\* the metadata fetch, and nothing in Drive has been created or moved by it.
C3_FolderRejected ==
    \A r \in Requests :
        (/\ DriveReq(r) /\ returned[r] >= 1
         /\ drive_files[request[r].drive_file_id].mimeType = "application/vnd.google-apps.folder") =>
            /\ Done(r)
            /\ response[r].status = 400
            /\ response[r].detail = "El link es de una CARPETA"
            /\ Len(calls[r]) = 1 /\ calls[r][1].call = "metadata"
            /\ ReportsBy(r) = {}
            /\ drive_files[request[r].drive_file_id].parents = <<"P">>
            /\ drive_files[request[r].drive_file_id].name = <<"llamadas">>

C3_Witness ==
    \E r \in Requests :
        /\ DriveReq(r) /\ request[r].drive_file_id = "d1" /\ Done(r)
        /\ response[r].status = 400 /\ returned[r] = 1

\* the display name the specification derives from a stored name: the literal
\* prefix taken off once from the front, any other name unchanged
ClaimedName(name) ==
    IF Len(name) >= 6 /\ SubSeq(name, 1, 6) = <<"Grabacion", " ", "de", " ", "llamada", " ">>
    THEN SubSeq(name, 7, Len(name))
    ELSE name

\* the step in which request r ends with its result
Succeeds(r) == ~Done(r) /\ pc'[r] = "done" /\ request'[r].endpoint = "drive"
               /\ response'[r].status = 200

\* what C4 says of a successful request apart from the texts of the response
C4_Effects(r) ==
    LET f == request[r].drive_file_id IN
    /\ Cardinality({i \in 1..Len(calls'[r]) :
            calls'[r][i].call \in {"transcribe", "general", "business"}}) = 3
    /\ Cardinality({i \in 1..Len(drive_created') : drive_created'[i].by = r}) = 1
    /\ \A i \in 1..Len(drive_created') : drive_created'[i].by = r =>
            /\ drive_created'[i].parents = <<"REP">>
            /\ drive_created'[i].mimeType = "text/plain"
            /\ drive_created'[i].source = f
    /\ FOLDER_ID_TXT_DESTINATION = "REP" /\ FOLDER_ID_M4A_DESTINATION = "ARCH"
    /\ drive_files'[f].parents = <<"ARCH">>
    /\ local[r].original_parent \in {"P", "ARCH"}
    /\ drive_files'[f].name = ClaimedName(local[r].original_name)
    /\ response'[r].body.fileName = ClaimedName(local[r].original_name)

C4_OriginalStep ==
    \A r \in Requests : Succeeds(r) =>
        /\ C4_Effects(r)
        /\ response'[r].body.transcription # ""
        /\ response'[r].body.generalSummary # ""
        /\ response'[r].body.businessSummary # ""

\* C4: a request in which every external call succeeds makes three
\* model calls, creates one report in the reports folder, moves the recording
\* from P to the audio-archive folder under the prefix-stripped name, and
\* answers with non-empty transcription, generalSummary and businessSummary.
C4_Original == [][C4_OriginalStep]_vars

C4_PassThroughStep ==
    \A r \in Requests : Succeeds(r) =>
        /\ C4_Effects(r)
        /\ response'[r].body.transcription = local[r].transcription
        /\ response'[r].body.generalSummary = local[r].general_summary
        /\ response'[r].body.businessSummary = local[r].business_summary
        /\ local[r].transcription # "" => response'[r].body.transcription # ""

\* What the code does guarantee of a successful request: all of C4 but the
\* non-emptiness; the three texts of the response are the model's answers as
\* they came, an empty transcript included.
C4_PassThrough == [][C4_PassThroughStep]_vars

\* C5: /summarize-general with an empty transcription answers 400 without
\* calling the model, and with a non-empty one it calls the model exactly once.
C5_EmptyTranscriptRejected ==
    \A r \in Requests : request[r].endpoint = "summarize-general" =>
        /\ request[r].transcription = "" =>
              /\ calls[r] = <<>>
              /\ Done(r) => response[r].status = 400
        /\ request[r].transcription # "" /\ Done(r) => Len(calls[r]) = 1

\* C6: /transcribe without the file field answers 400, no other status, and
\* the transcription model is not called.
C6_MissingFile400 ==
    \A r \in Requests :
        request[r].endpoint = "transcribe" /\ ~request[r].has_file /\ Done(r) =>
            /\ response[r].status = 400
            /\ calls[r] = <<>>

\* the start-up settings under which the specification calls the storage
\* integration unconfigured
Unconfigured(e) == ~e.json \/ e.m4a = "" \/ e.txt = "" \/ ~e.key \/ ~e.creds_ok

C7_State ==
    /\ Unconfigured(env) => ~drive_service
    /\ ~drive_service =>
          /\ drive_created = <<>>
          /\ \A r \in Requests : DriveReq(r) =>
                /\ Done(r)
                /\ response[r].status = 500
                /\ response[r].detail \in {"Servicio de Google Drive no configurado",
                                           "IDs de carpetas de destino no configurados"}
                /\ calls[r] = <<>>
                /\ inflight[r] = {}

C7_Step ==
    <<drive_service, FOLDER_ID_M4A_DESTINATION, FOLDER_ID_TXT_DESTINATION>>' =
        <<drive_service, FOLDER_ID_M4A_DESTINATION, FOLDER_ID_TXT_DESTINATION>>

\* C7: when a start-up setting was absent or the credentials failed to load,
\* the client handle is unset and every /transcribe-from-drive request answers
\* 500 with a configuration message without any storage or model call; no
\* request changes the handle or the folder identifiers.
C7_UnconfiguredRejected == []C7_State /\ [][C7_Step]_vars

\* both folder identifiers were set but the credentials did not load
C7_Witness ==
    \E r \in Requests :
        /\ DriveReq(r) /\ Done(r) /\ response[r].status = 500
        /\ ~drive_service /\ env.m4a # "" /\ env.txt # "" /\ env.json /\ env.key

\* the request ended in an error at its first step, the metadata fetch with
\* the parent lookup of lines 148-156
FailsAtMetadata(r) == response[r].status # 200 /\ Len(calls[r]) = 1

\* the request has added a report of its own, a further one for its recording
DuplicateReport(r) ==
    /\ ReportsBy(r) # {}
    /\ Cardinality(ReportsFor(request[r].drive_file_id)) >= 2

\* C8, as stated: a request on an identifier that an earlier request has
\* already processed successfully either fails at the metadata step or adds a
\* duplicate report, and it never succeeds with the reports unchanged.
C8_Original ==
    \A r \in Requests : DriveReq(r) /\ request[r].rerun /\ Done(r) =>
        /\ FailsAtMetadata(r) \/ DuplicateReport(r)
        /\ ~(response[r].status = 200 /\ ReportsBy(r) = {})

\* C8: a request on an identifier that an earlier request has already processed
\* successfully never succeeds without adding a duplicate report; the parent
\* lookup finds the archive folder, so when the request fails it is a vendor
\* call that failed, at any of the steps, and the request has then added a
\* duplicate report exactly if its upload was done (only the move failed).
C8_NotIdempotent ==
    \A r \in Requests : DriveReq(r) /\ request[r].rerun /\ Done(r) =>
        /\ response[r].status = 200 => DuplicateReport(r)
        /\ response[r].status # 200 =>
              /\ Len(calls[r]) = returned[r] + 1
              /\ response[r].detail \in VendorErrors(calls[r][Len(calls[r])].call)
              /\ DuplicateReport(r) <=> calls[r][Len(calls[r])].call = "move"
              /\ ~DuplicateReport(r) => ReportsBy(r) = {}

\* a second run on the recording has ended and has left a second report
C8_Witness ==
    \E r \in Requests :
        /\ DriveReq(r) /\ request[r].rerun /\ Done(r)
        /\ Cardinality(ReportsFor(request[r].drive_file_id)) = 2
        /\ ReportsBy(r) # {}

\* the media type the specification sends to the transcription model
ClaimedMime(reported) ==
    IF reported \in {"video/3gpp", "audio/3gpp"} THEN "audio/m4a" ELSE reported

\* C9: the media type of every transcription call of the archive handler is
\* audio/m4a when Drive reports video/3gpp or audio/3gpp and the reported type
\* otherwise; the type is still the reported one while the download runs, and
\* a folder never gets as far as the call.
C9_MimeRemap ==
    \A r \in Requests : DriveReq(r) =>
        LET reported == drive_files[request[r].drive_file_id].mimeType IN
        /\ \A i \in 1..Len(calls[r]) : calls[r][i].call = "transcribe" =>
              /\ calls[r][i].arg = ClaimedMime(reported)
              /\ reported # "application/vnd.google-apps.folder"
        /\ pc[r] = "download" => local[r].mime_type = reported

C9_Witness ==
    \E r \in Requests :
        /\ DriveReq(r) /\ drive_files[request[r].drive_file_id].mimeType = "audio/3gpp"
        /\ \E i \in 1..Len(calls[r]) :
              calls[r][i].call = "transcribe" /\ calls[r][i].arg = "audio/m4a"

\* C10: a recording that is in the audio-archive folder has a report in the
\* reports folder, made for a request that had uploaded it before moving the
\* recording, whatever the interleaving of requests and whichever steps fail.
C10_MovedOnlyAfterReport ==
    \A f \in FileIds :
        "ARCH" \in Range(drive_files[f].parents) =>
            \E i \in ReportsFor(f) :
                /\ DriveReq(drive_created[i].by)
                /\ request[drive_created[i].by].drive_file_id = f

\* the recording has been moved for one request while another request on the
\* same recording, which started before, is still waiting for its upload
C10_Witness ==
    \E r, q \in Requests :
        /\ r # q /\ DriveReq(r) /\ DriveReq(q)
        /\ request[r].drive_file_id = "a1" /\ request[q].drive_file_id = "a1"
        /\ Done(r) /\ response[r].status = 200
        /\ "ARCH" \in Range(drive_files["a1"].parents)
        /\ pc[q] = "upload" /\ ~request[q].rerun

====
